---- MODULE Spec2Model ----
(***************************************************************************)
(* Model of python_video_processing/run_video_processing.py: the landmark  *)
(* smoother (LandmarksEMA), the background compositor (process_background),*)
(* the overlay renderer (overlay_png_affine) and the run of main().        *)
(*                                                                         *)
(* Landmark coordinates are float32 values (numpy keeps float32 when a     *)
(* float32 array is multiplied by a Python float).  A float32 value v with *)
(* 1 <= |v| < 32, or v = 0, is held as the integer v * 2^23; every float32 *)
(* of that range is such an integer, and the arithmetic below rounds to    *)
(* the 24-bit significand exactly as IEEE-754 round-to-nearest-even does.  *)
(***************************************************************************)
EXTENDS Integers, Sequences, FiniteSets, TLC

VARIABLES
    \* --- LandmarksEMA (landmarks_smoother in main) ---
    alpha,            \* LandmarksEMA.alpha: "0.6" or "1.0"
    last_landmarks,   \* LandmarksEMA.last_landmarks: None or a triangle
    ema_calls,        \* number of __call__ invocations so far
    ema_arg,          \* argument of the latest __call__
    ema_prev,         \* last_landmarks as it was before the latest __call__
    ema_ret,          \* value returned by the latest __call__
    ema_const,        \* TRUE while every __call__ so far had the same argument
    \* --- process_background at one pixel ---
    px_pc,            \* "input" before the call, "output" after it
    px_frame,         \* frame value at the pixel
    px_mask,          \* resized mask value at the pixel, in units of 1/MaskDen
    px_mode,          \* mode argument
    px_bg,            \* bg_image value at the pixel, or NoPixel when bg_image is None
    px_blur,          \* blurred frame value at the pixel
    px_person,        \* person layer computed by the call
    px_background,    \* background layer computed by the call
    px_out,           \* value returned by the call
    \* --- main() ---
    pc,               \* position in main()
    args,             \* parsed command line: [bg_mode, bg_image]
    mask_file,        \* what cv2.imread found for the mask: "unread", "rgba", "rgb", "gray", "missing"
    mask_rgba,        \* loaded overlay asset, or None
    bg_file,          \* what cv2.imread found for the background: "unread", "ok", "unreadable"
    bg_image,         \* None (not loaded, or imread returned None) or the loaded image
    bg_image_resized, \* None or the background resized to the frame
    cap_opened,       \* "unopened", "ok" or "bad"
    frames_read,      \* successful cap.read() calls
    frame,            \* raw frame of the current iteration
    final_frame,      \* working frame of the current iteration
    working,          \* final_frame as the background step left it
    seg_result,       \* seg_results[0].masks: [present, data], data the instance masks
    pose_input,       \* frame handed to model_pose in this iteration
    pose_result,      \* pose_results[0].keypoints.xy: the detections, each <<nose, eye_l, eye_r>>
    detections,       \* pose results of the frames processed so far
    render_input,     \* frame handed to overlay_png_affine in this iteration
    render_tri,       \* triangle handed to overlay_png_affine in this iteration
    render_calls,     \* number of overlay_png_affine invocations so far
    calls_at_read,    \* ema_calls when the current frame was read
    state_at_read,    \* last_landmarks when the current frame was read
    renders_at_read,  \* render_calls when the current frame was read
    written,          \* ids of the frames written, in order
    write_input,      \* frame handed to out.write in this iteration
    frame_count,      \* frame_count of main()
    temp_exists,      \* output_temp.mp4 exists
    final_exists,     \* output_masked.mp4 exists (settled when ffmpeg is run: nothing
                      \* touches the file before)
    remux,            \* "none", "ok", "failed" (ffmpeg exit code), "absent" (no ffmpeg)
    reported          \* path reported as deliverable: "none", "final" or "temp"

\* Python's None where the other values are tuples.
None == <<>>

\* ------------------------------------------------------------------------
\* Bounds of the model
\* ------------------------------------------------------------------------
MaxCalls == 3

\* ------------------------------------------------------------------------
\* float32 arithmetic on values held in units of 2^-23
\* ------------------------------------------------------------------------
RECURSIVE Pow2(_)
Pow2(n) == IF n = 0 THEN 1 ELSE 2 * Pow2(n - 1)

Abs(x) == IF x < 0 THEN -x ELSE x

\* The float32 of k/8 (k an integer of small magnitude), in units of 2^-23.
Eighths(k) == k * Pow2(20)

\* Spacing of the float32 grid (one ulp) at magnitude n, in units of 2^-23:
\* 2^j for 2^(23+j) <= n < 2^(24+j).
RECURSIVE Granule(_)
Granule(n) == IF n < Pow2(24) THEN 1 ELSE 2 * Granule(n \div 2)

\* Round-to-nearest-even of x4/4 to the float32 grid; x4 is a non-negative
\* magnitude in quarter units whose lowest bit is a sticky bit.
RoundMag(x4) ==
    LET g == Granule(x4 \div 4)
        q == x4 \div (4 * g)
        r == x4 % (4 * g)
        up == r > 2 * g \/ (r = 2 * g /\ q % 2 = 1)
    IN  (IF up THEN q + 1 ELSE q) * g

\* float32 constants of the smoother, in units of 2^-25:
\* float32(0.6) = 20132660 * 2^-25, float32(1 - 0.6) = 13421773 * 2^-25.
AlphaF32(a) == IF a = "0.6" THEN 20132660 ELSE 33554432
OneMinusAlphaF32(a) == IF a = "0.6" THEN 13421773 ELSE 0

\* float32 product c * x: c in units of 2^-25 (0 <= c <= 2^25), x in units of
\* 2^-23 (|x| < 2^28).  The exact 53-bit product is formed in 13-bit limbs.
F32MulConst(c, x) ==
    LET B  == 8192
        k  == Abs(x)
        c0 == c % B
        c1 == c \div B
        k0 == k % B
        k1 == (k \div B) % B
        k2 == k \div (B * B)
        t0 == c0 * k0
        t1 == c0 * k1 + c1 * k0
        t2 == c0 * k2 + c1 * k1
        t3 == c1 * k2
        d0 == t0 % B
        s1 == t1 + (t0 \div B)
        d1 == s1 % B
        high == t2 + (s1 \div B) + t3 * B          \* product div 2^26
        top == 2 * high + (d1 \div 4096)           \* product div 2^25
        low == (d1 % 4096) * B + d0                \* product mod 2^25
        x4  == 4 * top + 2 * (low \div Pow2(24))
                 + (IF low % Pow2(24) # 0 THEN 1 ELSE 0)
        m   == RoundMag(x4)
    IN  IF x < 0 THEN -m ELSE m

\* float32 sum of two float32 values.
F32Add(p, q) ==
    LET n == p + q
        m == RoundMag(4 * Abs(n))
    IN  IF n < 0 THEN -m ELSE m

\* ------------------------------------------------------------------------
\* Triangles: <<eye_l, eye_r, nose>>, each point <<x, y>>
\* ------------------------------------------------------------------------
Pt(x8, y8) == <<Eighths(x8), Eighths(y8)>>

\* Triangles the smoother is exercised with (coordinates in eighths of a pixel).
EMATriangles ==
    { <<Pt(24, 24), Pt(40, 24), Pt(32, 40)>>,
      <<Pt(29, 29), Pt(58, 29), Pt(40, 63)>>,
      <<Pt(24, 24), Pt(40, 40), Pt(32, 32)>>,
      <<Pt(111, 116), Pt(232, 121), Pt(126, 217)>> }

\* ------------------------------------------------------------------------
\* LandmarksEMA
\* ------------------------------------------------------------------------
\* EMASmooth with the two weights exchanged.
EMASmoothSwapped(a, landmarks, last) ==
    [i \in 1..3 |-> [j \in 1..2 |->
        F32Add(F32MulConst(OneMinusAlphaF32(a), landmarks[i][j]),
               F32MulConst(AlphaF32(a), last[i][j]))]]

\* self.alpha * landmarks + (1 - self.alpha) * self.last_landmarks, elementwise
EMASmooth(a, landmarks, last) ==
    [i \in 1..3 |-> [j \in 1..2 |->
        F32Add(F32MulConst(AlphaF32(a), landmarks[i][j]),
               F32MulConst(OneMinusAlphaF32(a), last[i][j]))]]

\* EMACall that returns the smoothed triangle without storing it.
EMACallNoStore(a, last, landmarks) ==
    IF last = None
    THEN <<landmarks, landmarks>>
    ELSE <<[i \in 1..3 |-> [j \in 1..2 |->
              F32Add(F32MulConst(AlphaF32(a), landmarks[i][j]),
                     F32MulConst(OneMinusAlphaF32(a), last[i][j]))]], last>>

\* LandmarksEMA.__call__: <<returned value, new last_landmarks>>
EMACall(a, last, landmarks) ==
    IF last = None
    THEN <<landmarks, landmarks>>
    ELSE LET smoothed_landmarks == EMASmooth(a, landmarks, last)
         IN  <<smoothed_landmarks, smoothed_landmarks>>


\* ------------------------------------------------------------------------
\* Frames: 8-bit values at NPix sample pixels (the three channels of a pixel
\* are treated alike by every operation below, so one channel is kept)
\* ------------------------------------------------------------------------
NPix == 2
MaxPixel == 255
MaskDen == 255

Pixels == 1..NPix

\* Pixel value standing for "bg_image is None" at one pixel.
NoPixel == 0 - 1

RECURSIVE BitAndN(_, _, _)
BitAndN(a, b, n) ==
    IF n = 0 THEN 0
    ELSE (a % 2) * (b % 2) + 2 * BitAndN(a \div 2, b \div 2, n - 1)

\* cv2.bitwise_and on uint8
bitwise_and(a, b) == BitAndN(a, b, 8)

\* bitwise_not that leaves the mask as it is.
bitwise_not_missing(a) == a

\* cv2.bitwise_not on uint8
bitwise_not(a) == MaxPixel - a

\* cv2.add on uint8: saturating
cv_add(a, b) == IF a + b > MaxPixel THEN MaxPixel ELSE a + b

\* ScaleMask that scales by 256, which wraps in uint8.
ScaleMaskBy256(m) == ((m * 256) \div MaskDen) % 256

\* (seg_mask_resized * 255).astype(np.uint8): a mask value m/MaskDen in [0,1]
\* scaled and truncated.
ScaleMask(m) == (m * MaxPixel) \div MaskDen

\* The layer that process_background masks with inv_mask, chosen by mode.
BackgroundSource(mode, f, bg, blurred) ==
    IF mode = "blur" THEN blurred
    ELSE IF mode = "image" /\ bg # NoPixel THEN bg
    ELSE f

\* process_background at one pixel: f the frame value, m the resized mask
\* value, bg the bg_image value (NoPixel for None), blurred the value of
\* cv2.GaussianBlur(frame, (21, 21), 0) there.
process_background_px(f, m, mode, bg, blurred) ==
    LET seg_mask_3ch == ScaleMask(m)
        inv_mask == bitwise_not(seg_mask_3ch)
        person == bitwise_and(f, seg_mask_3ch)
        background == bitwise_and(BackgroundSource(mode, f, bg, blurred), inv_mask)
    IN  [person |-> person, background |-> background,
         out |-> cv_add(person, background)]

RECURSIVE SumPixels(_, _)
SumPixels(frame_, n) == IF n = 0 THEN 0 ELSE frame_[n] + SumPixels(frame_, n - 1)

\* cv2.GaussianBlur(frame, (21, 21), 0): a normalised weighted average of
\* the neighbourhood; over the sample pixels, their mean.
GaussianBlur(frame_) == [p \in Pixels |-> SumPixels(frame_, NPix) \div NPix]

\* process_background on a frame; seg_mask has the frame's size, where
\* cv2.resize leaves it as it is.
process_background(frame_, seg_mask, mode, bg) ==
    [p \in Pixels |->
        process_background_px(frame_[p], seg_mask[p], mode,
                              IF bg = None THEN NoPixel ELSE bg[p],
                              GaussianBlur(frame_)[p]).out]

\* torch.any(masks.data, dim=0).float(): the union of the instance masks,
\* 1.0 (MaskDen/MaskDen) where any instance is non-zero.
CombinedMask(data) ==
    [p \in Pixels |-> IF \E i \in 1..Len(data) : data[i][p] # 0 THEN MaskDen ELSE 0]

\* ------------------------------------------------------------------------
\* Overlay renderer
\* ------------------------------------------------------------------------
\* A pixel of an RGBA image: <<colour, alpha>>.
Transparent == <<0, 0>>

\* frame * (1 - mask) + overlay_rgb * mask with mask = alpha / 255, then
\* astype(np.uint8).  The float32 arithmetic is exact at alpha 0 and 255,
\* the alphas of the canvases below.
BlendPixel(f, c) == (f * (MaxPixel - c[2]) + c[1] * c[2]) \div MaxPixel

\* cv2.warpAffine(overlay_rgba, cv2.getAffineTransform(src_tri, dst_tri), (w, h)):
\* a canvas of the frame's size, each pixel either transparent (no source
\* pixel: the constant border) or taken from the overlay.  The solve and the
\* sampling are the library's; the code guards neither by the shape of
\* dst_tri, so every such canvas is a possible result for every dst_tri.
WarpCanvases(overlay_rgba, dst_tri) ==
    LET samples == {Transparent} \cup
                   {overlay_rgba[y][x] : y \in 1..Len(overlay_rgba),
                                         x \in 1..Len(overlay_rgba[1])}
    IN  [Pixels -> samples]

\* overlay_png_affine: the frames it can return.
overlay_png_affine(frame_, overlay_rgba, dst_tri) ==
    { [p \in Pixels |-> BlendPixel(frame_[p], canvas[p])] :
        canvas \in WarpCanvases(overlay_rgba, dst_tri) }

\* ------------------------------------------------------------------------
\* Inputs of a run of main()
\* ------------------------------------------------------------------------
MaxFrames == 3

\* The parsed command line.  bg_mode is 'blur' or 'image' (argparse choices);
\* bg_image is given ("path") or not (None); 'blur' ignores it.
ArgsChoices ==
    { [bg_mode |-> "blur", bg_image |-> "None"],
      [bg_mode |-> "image", bg_image |-> "None"],
      [bg_mode |-> "image", bg_image |-> "path"] }

\* The mask PNG: 3 columns by 5 rows, opaque but for a transparent last row.
OverlayAsset ==
    [y \in 1..5 |-> [x \in 1..3 |-> IF y = 5 THEN Transparent ELSE <<250, 255>>]]

\* The background image at the sample pixels.
BgAsset == [p \in Pixels |-> 60]

\* Frames the video may hold.
RawFrames ==
    { [p \in Pixels |-> 90],
      [p \in Pixels |-> IF p = 1 THEN 10 ELSE 200] }

\* Instance masks: the person at the first sample pixel, or at the others.
MaskFirst == [p \in Pixels |-> IF p = 1 THEN 1 ELSE 0]
MaskRest == [p \in Pixels |-> IF p = 1 THEN 0 ELSE 1]

\* What model_seg may return as seg_results[0].masks.
SegResults ==
    { [present |-> FALSE, data |-> <<>>],
      [present |-> TRUE, data |-> <<>>],
      [present |-> TRUE, data |-> <<MaskFirst>>],
      [present |-> TRUE, data |-> <<MaskFirst, MaskRest>>] }

\* One detection: keypoints <<nose, eye_l, eye_r>> (indices 0, 1, 2), in
\* eighths of a pixel.
Detections ==
    { <<Pt(32, 40), Pt(24, 24), Pt(40, 24)>>,     \* eyes in order
      <<Pt(40, 63), Pt(58, 29), Pt(29, 29)>>,     \* mirrored
      <<Pt(32, 32), Pt(24, 24), Pt(40, 40)>>,     \* collinear
      <<Pt(0, 0), Pt(0, 0), Pt(0, 0)>>,           \* not detected
      <<Pt(32, 40), Pt(24, 24), Pt(0, 24)>>,      \* one eye not detected
      <<Pt(32, 0 - 8), Pt(24, 24), Pt(40, 24)>> } \* nose above the frame

\* What model_pose may return as pose_results[0].keypoints.xy.
PoseResults == {<<>>} \cup {<<d>> : d \in Detections}

\* ------------------------------------------------------------------------
\* Pieces of the frame loop
\* ------------------------------------------------------------------------
\* MirrorSwap that never swaps.
MirrorSwapNever(eye_l, eye_r) == <<eye_l, eye_r>>

\* if eye_l[0] > eye_r[0]: eye_l, eye_r = eye_r, eye_l   -> <<eye_l, eye_r>>
MirrorSwap(eye_l, eye_r) ==
    IF eye_l[1] > eye_r[1] THEN <<eye_r, eye_l>> ELSE <<eye_l, eye_r>>

\* LandmarksValid that looks at the nose only.
LandmarksValidNoseOnly(nose, eye_l, eye_r) == nose[1] > 0 /\ nose[2] > 0

\* np.all(nose > 0) and np.all(eye_l > 0) and np.all(eye_r > 0)
LandmarksValid(nose, eye_l, eye_r) ==
    /\ nose[1] > 0 /\ nose[2] > 0
    /\ eye_l[1] > 0 /\ eye_l[2] > 0
    /\ eye_r[1] > 0 /\ eye_r[2] > 0

\* PoseInput that takes the working frame.
PoseInputWorking(frame_, final_frame_) == final_frame_

\* The frame model_pose is called on: model_pose(frame, verbose=False)
PoseInput(frame_, final_frame_) == frame_

\* The frame overlay_png_affine is called on:
\* overlay_png_affine(final_frame, mask_rgba, dst_tri_smoothed)
RenderInput(frame_, final_frame_) == final_frame_

\* A resize that accepts None.
cv_resize_accepts_none(img) == FALSE

\* cv2.resize raises on an empty source (None).
cv_resize_raises(img) == img = None

\* os.path.getsize raises FileNotFoundError when the file does not exist.
getsize_raises(exists) == ~exists

emaVars == <<alpha, last_landmarks, ema_calls, ema_arg, ema_prev, ema_ret, ema_const>>
pxVars == <<px_pc, px_frame, px_mask, px_mode, px_bg, px_blur, px_person,
            px_background, px_out>>
setupVars == <<args, mask_file, mask_rgba, bg_file, bg_image, bg_image_resized,
               cap_opened>>
frameVars == <<frames_read, frame, final_frame, working, seg_result, pose_input,
               pose_result, render_input, render_tri, write_input, calls_at_read,
               state_at_read, renders_at_read>>
histVars == <<detections, render_calls>>
outVars == <<written, frame_count>>
fileVars == <<temp_exists, final_exists, remux, reported>>
mainVars == <<pc, setupVars, frameVars, histVars, outVars, fileVars>>
vars == <<emaVars, pxVars, mainVars>>

\* ------------------------------------------------------------------------
\* Initial states
\* ------------------------------------------------------------------------
\* LandmarksEMA.__init__ with the given alpha
EMAInit(a) ==
    /\ alpha = a
    /\ last_landmarks = None
    /\ ema_calls = 0
    /\ ema_arg = None
    /\ ema_prev = None
    /\ ema_ret = None
    /\ ema_const = TRUE

PxIdle ==
    /\ px_pc = "idle"
    /\ px_frame = 0
    /\ px_mask = 0
    /\ px_mode = "blur"
    /\ px_bg = NoPixel
    /\ px_blur = 0
    /\ px_person = 0
    /\ px_background = 0
    /\ px_out = 0

MainFields(p) ==
    /\ pc = p
    /\ mask_file = "unread"
    /\ mask_rgba = None
    /\ bg_file = "unread"
    /\ bg_image = None
    /\ bg_image_resized = None
    /\ cap_opened = "unopened"
    /\ frames_read = 0
    /\ frame = None
    /\ final_frame = None
    /\ working = None
    /\ seg_result = [present |-> FALSE, data |-> <<>>]
    /\ pose_input = None
    /\ pose_result = <<>>
    /\ detections = <<>>
    /\ render_input = None
    /\ render_tri = None
    /\ render_calls = 0
    /\ calls_at_read = 0
    /\ state_at_read = None
    /\ renders_at_read = 0
    /\ write_input = None
    /\ written = <<>>
    /\ frame_count = 0
    /\ temp_exists = FALSE
    /\ remux = "none"
    /\ reported = "none"

\* main() about to start.
Init ==
    /\ MainFields("start")
    /\ args \in ArgsChoices
    /\ final_exists = FALSE
    /\ EMAInit("0.6")
    /\ PxIdle

\* ------------------------------------------------------------------------
\* main(): setup
\* ------------------------------------------------------------------------
\* if args.bg_mode == 'image' and not args.bg_image: return
ParseArgs ==
    /\ pc = "start"
    /\ pc' = IF args.bg_mode = "image" /\ args.bg_image = "None"
             THEN "returned" ELSE "load_models"
    /\ UNCHANGED <<setupVars, frameVars, histVars, outVars, fileVars, emaVars, pxVars>>

\* try: YOLO(...) ... except Exception: return
LoadModels ==
    /\ pc = "load_models"
    /\ \E ok \in BOOLEAN : pc' = IF ok THEN "load_mask" ELSE "returned"
    /\ UNCHANGED <<setupVars, frameVars, histVars, outVars, fileVars, emaVars, pxVars>>

\* try: mask_rgba = cv2.imread(...); if mask_rgba.shape[2] != 4: raise ...
\* except Exception: return.  A missing or unreadable file gives None, whose
\* .shape raises; a grey image has no shape[2]; an RGB one has shape[2] = 3.
LoadMask ==
    /\ pc = "load_mask"
    /\ \E kind \in {"rgba", "rgb", "gray", "missing"} :
        /\ mask_file' = kind
        /\ mask_rgba' = IF kind = "rgba" THEN OverlayAsset ELSE None
        /\ pc' = IF kind = "rgba" THEN "load_bg" ELSE "returned"
    /\ UNCHANGED <<args, bg_file, bg_image, bg_image_resized, cap_opened>>
    /\ UNCHANGED <<frameVars, histVars, outVars, fileVars, emaVars, pxVars>>

\* if args.bg_mode == 'image': bg_image = cv2.imread(args.bg_image)
\* cv2.imread returns None for an unreadable file and does not raise.
LoadBg ==
    /\ pc = "load_bg"
    /\ IF args.bg_mode = "image"
       THEN \E found \in {"ok", "unreadable"} :
                /\ bg_file' = found
                /\ bg_image' = IF found = "ok" THEN BgAsset ELSE None
       ELSE UNCHANGED <<bg_file, bg_image>>
    /\ pc' = "open_video"
    /\ UNCHANGED <<args, mask_file, mask_rgba, bg_image_resized, cap_opened>>
    /\ UNCHANGED <<frameVars, histVars, outVars, fileVars, emaVars, pxVars>>

\* cap = cv2.VideoCapture(...); if not cap.isOpened(): return
OpenVideo ==
    /\ pc = "open_video"
    /\ \E ok \in BOOLEAN :
        /\ cap_opened' = IF ok THEN "ok" ELSE "bad"
        /\ pc' = IF ok THEN "resize_bg" ELSE "returned"
    /\ UNCHANGED <<args, mask_file, mask_rgba, bg_file, bg_image, bg_image_resized>>
    /\ UNCHANGED <<frameVars, histVars, outVars, fileVars, emaVars, pxVars>>

\* if bg_image_resized is None and args.bg_mode == 'image':
\*     bg_image_resized = cv2.resize(bg_image, (w, h))
ResizeBg ==
    /\ pc = "resize_bg"
    /\ IF bg_image_resized = None /\ args.bg_mode = "image"
       THEN IF cv_resize_raises(bg_image)
            THEN /\ pc' = "crashed"
                 /\ UNCHANGED bg_image_resized
            ELSE /\ pc' = "open_writer"
                 /\ bg_image_resized' = bg_image
       ELSE /\ pc' = "open_writer"
            /\ UNCHANGED bg_image_resized
    /\ UNCHANGED <<args, mask_file, mask_rgba, bg_file, bg_image, cap_opened>>
    /\ UNCHANGED <<frameVars, histVars, outVars, fileVars, emaVars, pxVars>>

\* out = cv2.VideoWriter("output_temp.mp4", ...);
\* landmarks_smoother = LandmarksEMA(alpha=0.6); frame_count = 0
OpenWriter ==
    /\ pc = "open_writer"
    /\ temp_exists' = TRUE
    /\ alpha' = "0.6"
    /\ last_landmarks' = None
    /\ frame_count' = 0
    /\ pc' = "read"
    /\ UNCHANGED <<ema_calls, ema_arg, ema_prev, ema_ret, ema_const>>
    /\ UNCHANGED <<written, final_exists, remux, reported>>
    /\ UNCHANGED <<setupVars, frameVars, histVars, pxVars>>

\* ------------------------------------------------------------------------
\* main(): the frame loop
\* ------------------------------------------------------------------------
\* ret, frame = cap.read() with ret true
ReadFrame ==
    /\ pc = "read"
    /\ frames_read < MaxFrames
    /\ \E f \in RawFrames : frame' = f
    /\ frames_read' = frames_read + 1
    /\ final_frame' = None
    /\ working' = None
    /\ seg_result' = [present |-> FALSE, data |-> <<>>]
    /\ pose_input' = None
    /\ pose_result' = <<>>
    /\ render_input' = None
    /\ render_tri' = None
    /\ write_input' = None
    /\ calls_at_read' = ema_calls
    /\ state_at_read' = last_landmarks
    /\ renders_at_read' = render_calls
    /\ pc' = "segment"
    /\ UNCHANGED <<setupVars, histVars, outVars, fileVars, emaVars, pxVars>>

\* ret false: break.  The records of the last iteration are dropped.
EndOfStream ==
    /\ pc = "read"
    /\ frame' = None
    /\ final_frame' = None
    /\ working' = None
    /\ seg_result' = [present |-> FALSE, data |-> <<>>]
    /\ pose_input' = None
    /\ pose_result' = <<>>
    /\ render_input' = None
    /\ render_tri' = None
    /\ write_input' = None
    /\ pc' = "release"
    /\ UNCHANGED <<frames_read, calls_at_read, state_at_read, renders_at_read>>
    /\ UNCHANGED <<setupVars, histVars, outVars, fileVars, emaVars, pxVars>>

\* seg_results = model_seg(frame, classes=[0]); final_frame = frame;
\* if masks is not None and len(masks.data) > 0: final_frame = process_background(...)
Segment ==
    /\ pc = "segment"
    /\ \E sr \in SegResults :
        /\ seg_result' = sr
        /\ final_frame' =
             IF sr.present /\ Len(sr.data) > 0
             THEN process_background(frame, CombinedMask(sr.data), args.bg_mode,
                                     bg_image_resized)
             ELSE frame
    /\ working' = final_frame'
    /\ pc' = "pose"
    /\ UNCHANGED <<frames_read, frame, pose_input, pose_result, render_input,
                   render_tri, write_input, calls_at_read, state_at_read,
                   renders_at_read>>
    /\ UNCHANGED <<setupVars, histVars, outVars, fileVars, emaVars, pxVars>>

\* pose_results = model_pose(frame, verbose=False)
Pose ==
    /\ pc = "pose"
    /\ pose_input' = PoseInput(frame, final_frame)
    /\ \E pr \in PoseResults : pose_result' = pr
    /\ pc' = "landmarks"
    /\ UNCHANGED <<frames_read, frame, final_frame, working, seg_result,
                   render_input, render_tri, write_input, calls_at_read,
                   state_at_read, renders_at_read>>
    /\ UNCHANGED <<setupVars, histVars, outVars, fileVars, emaVars, pxVars>>

\* if keypoints is not None and len(keypoints.xy) > 0: first detection, eye
\* swap, validity check, dst_tri_smoothed = landmarks_smoother(dst_tri_raw)
Landmarks ==
    /\ pc = "landmarks"
    /\ detections' = Append(detections, pose_result)
    /\ IF Len(pose_result) > 0
       THEN LET keypoints == pose_result[1]
                nose == keypoints[1]
                eyes == MirrorSwap(keypoints[2], keypoints[3])
                eye_l == eyes[1]
                eye_r == eyes[2]
            IN  IF LandmarksValid(nose, eye_l, eye_r)
                THEN LET dst_tri_raw == <<eye_l, eye_r, nose>>
                         r == EMACall(alpha, last_landmarks, dst_tri_raw)
                     IN  /\ ema_ret' = r[1]
                         /\ last_landmarks' = r[2]
                         /\ ema_prev' = last_landmarks
                         /\ ema_arg' = dst_tri_raw
                         /\ ema_const' = (ema_const /\ (ema_calls = 0 \/ dst_tri_raw = ema_arg))
                         /\ ema_calls' = ema_calls + 1
                         /\ render_tri' = r[1]
                         /\ pc' = "overlay"
                ELSE /\ pc' = "write"
                     /\ UNCHANGED <<last_landmarks, ema_calls, ema_arg, ema_prev,
                                    ema_ret, ema_const, render_tri>>
       ELSE /\ pc' = "write"
            /\ UNCHANGED <<last_landmarks, ema_calls, ema_arg, ema_prev,
                           ema_ret, ema_const, render_tri>>
    /\ UNCHANGED <<alpha, render_calls>>
    /\ UNCHANGED <<frames_read, frame, final_frame, working, seg_result,
                   pose_input, pose_result, render_input, write_input,
                   calls_at_read, state_at_read, renders_at_read>>
    /\ UNCHANGED <<setupVars, outVars, fileVars, pxVars>>

\* final_frame = overlay_png_affine(final_frame, mask_rgba, dst_tri_smoothed)
Overlay ==
    /\ pc = "overlay"
    /\ render_input' = RenderInput(frame, final_frame)
    /\ \E result \in overlay_png_affine(RenderInput(frame, final_frame),
                                        mask_rgba, render_tri) :
        final_frame' = result
    /\ render_calls' = render_calls + 1
    /\ pc' = "write"
    /\ UNCHANGED <<frames_read, frame, working, seg_result, pose_input,
                   pose_result, render_tri, write_input, calls_at_read,
                   state_at_read, renders_at_read, detections>>
    /\ UNCHANGED <<setupVars, outVars, fileVars, emaVars, pxVars>>

\* out.write(final_frame); frame_count += 1
Write ==
    /\ pc = "write"
    /\ written' = Append(written, frames_read)
    /\ write_input' = final_frame
    /\ frame_count' = frame_count + 1
    /\ pc' = "read"
    /\ UNCHANGED <<frames_read, frame, final_frame, working, seg_result, pose_input,
                   pose_result, render_input, render_tri, calls_at_read,
                   state_at_read, renders_at_read>>
    /\ UNCHANGED <<setupVars, histVars, fileVars, emaVars, pxVars>>

\* ------------------------------------------------------------------------
\* main(): after the loop
\* ------------------------------------------------------------------------
\* cap.release(); out.release()
Release ==
    /\ pc = "release"
    /\ pc' = "ffmpeg"
    /\ UNCHANGED <<setupVars, frameVars, histVars, outVars, fileVars, emaVars, pxVars>>

\* subprocess.run(ffmpeg_command, check=True, ...) succeeds:
\* the final file is written and os.remove(output_video_path) runs.
FfmpegOk ==
    /\ pc = "ffmpeg"
    /\ remux' = "ok"
    /\ final_exists' = TRUE
    /\ temp_exists' = FALSE
    /\ reported' = "final"
    /\ pc' = "summary"
    /\ UNCHANGED <<setupVars, frameVars, histVars, outVars, emaVars, pxVars>>

\* except subprocess.CalledProcessError: ffmpeg exited with an error; an
\* output file may be there (left by ffmpeg or by an earlier run) or not.
\* The temporary path is printed.
FfmpegFailed ==
    /\ pc = "ffmpeg"
    /\ remux' = "failed"
    /\ \E there \in BOOLEAN : final_exists' = there
    /\ reported' = "temp"
    /\ pc' = "summary"
    /\ UNCHANGED temp_exists
    /\ UNCHANGED <<setupVars, frameVars, histVars, outVars, emaVars, pxVars>>

\* except FileNotFoundError: there is no ffmpeg; an output file may be there
\* (left by an earlier run) or not.  The temporary path is printed.
FfmpegAbsent ==
    /\ pc = "ffmpeg"
    /\ remux' = "absent"
    /\ \E there \in BOOLEAN : final_exists' = there
    /\ reported' = "temp"
    /\ pc' = "summary"
    /\ UNCHANGED temp_exists
    /\ UNCHANGED <<setupVars, frameVars, histVars, outVars, emaVars, pxVars>>

\* file_size = os.path.getsize(final_output_path) / (1024 * 1024); the prints
Summary ==
    /\ pc = "summary"
    /\ pc' = IF getsize_raises(final_exists) THEN "crashed" ELSE "done"
    /\ UNCHANGED <<setupVars, frameVars, histVars, outVars, fileVars, emaVars, pxVars>>

Next ==
    \/ ParseArgs
    \/ LoadModels
    \/ LoadMask
    \/ LoadBg
    \/ OpenVideo
    \/ ResizeBg
    \/ OpenWriter
    \/ ReadFrame
    \/ EndOfStream
    \/ Segment
    \/ Pose
    \/ Landmarks
    \/ Overlay
    \/ Write
    \/ Release
    \/ FfmpegOk
    \/ FfmpegFailed
    \/ FfmpegAbsent
    \/ Summary

Spec == Init /\ [][Next]_vars

\* ------------------------------------------------------------------------
\* LandmarksEMA on its own
\* ------------------------------------------------------------------------
InitEMA ==
    /\ \E a \in {"0.6", "1.0"} : EMAInit(a)
    /\ MainFields("idle")
    /\ args = [bg_mode |-> "blur", bg_image |-> "None"]
    /\ final_exists = FALSE
    /\ PxIdle

\* landmarks_smoother(landmarks)
EMAUpdate ==
    /\ ema_calls < MaxCalls
    /\ \E landmarks \in EMATriangles :
        /\ LET r == EMACall(alpha, last_landmarks, landmarks)
           IN  /\ ema_ret' = r[1]
               /\ last_landmarks' = r[2]
        /\ ema_prev' = last_landmarks
        /\ ema_arg' = landmarks
        /\ ema_const' = (ema_const /\ (ema_calls = 0 \/ landmarks = ema_arg))
    /\ ema_calls' = ema_calls + 1
    /\ UNCHANGED <<alpha, pxVars, mainVars>>

NextEMA == EMAUpdate

SpecEMA == InitEMA /\ [][NextEMA]_vars

\* ------------------------------------------------------------------------
\* process_background at one pixel
\* ------------------------------------------------------------------------
\* mode, bg_image and blurred frame at the pixel.
LayerInputs ==
    { <<"blur", NoPixel, 170>>, <<"blur", 85, 255>>,
      <<"image", 85, 60>>, <<"image", 255, 60>>,
      <<"image", NoPixel, 60>>, <<"none", 170, 60>> }

InitBG ==
    /\ px_pc = "input"
    /\ px_frame \in 0..MaxPixel
    /\ \E l \in LayerInputs :
        /\ px_mode = l[1]
        /\ px_bg = l[2]
        /\ px_blur = l[3]
    /\ px_mask = 0
    /\ px_person = 0
    /\ px_background = 0
    /\ px_out = 0
    /\ EMAInit("0.6")
    /\ MainFields("idle")
    /\ args = [bg_mode |-> "blur", bg_image |-> "None"]
    /\ final_exists = FALSE

\* process_background(frame, seg_mask, mode, bg_image) seen at one pixel
Composite ==
    /\ px_pc = "input"
    /\ \E m \in 0..MaskDen :
        LET r == process_background_px(px_frame, m, px_mode, px_bg, px_blur)
        IN  /\ px_mask' = m
            /\ px_person' = r.person
            /\ px_background' = r.background
            /\ px_out' = r.out
    /\ px_pc' = "output"
    /\ UNCHANGED <<px_frame, px_mode, px_bg, px_blur, emaVars, mainVars>>

NextBG == Composite

SpecBG == InitBG /\ [][NextBG]_vars

\* ========================================================================
\* Properties
\* ========================================================================

\* A detection has a coordinate of nose, left eye or right eye that is zero
\* or negative (the eye swap permutes the points and keeps their coordinates).
HasNonPositive(d) == \E i \in 1..3 : \E j \in 1..2 : d[i][j] <= 0

\* The current frame's pose result holds a detection with such a coordinate,
\* and the landmark step of the frame has run.
InvalidFrame ==
    /\ pc \in {"overlay", "write", "read"}
    /\ Len(pose_result) > 0
    /\ HasNonPositive(pose_result[1])

\* C1: for a frame whose landmark triangle has a zero or negative coordinate
\* the smoother is not called, its state is what it was when the frame was
\* read, the renderer is not called, and the frame written is the working
\* frame the background step produced.
C1_InvalidFrameSkipsOverlay ==
    InvalidFrame =>
        /\ pc # "overlay"
        /\ ema_calls = calls_at_read
        /\ last_landmarks = state_at_read
        /\ render_calls = renders_at_read
        /\ render_input = None
        /\ final_frame = working
        /\ (pc = "read" => write_input = working)

\* An invalid frame was written after the smoother had been set and the
\* background step had changed the frame.
C1_Witness ==
    /\ InvalidFrame
    /\ pc = "read"
    /\ write_input = working
    /\ working # frame
    /\ last_landmarks # None

\* ------------------------------------------------------------------------
\* Exact products of integers below 2^29 in magnitude, as <<sign, digits>>
\* in base 2^15 (the products exceed 32-bit integers).
ExactProduct(a, b) ==
    LET D  == 32768
        x  == Abs(a)
        y  == Abs(b)
        t0 == (x % D) * (y % D)
        t1 == (x \div D) * (y % D) + (x % D) * (y \div D)
        t2 == (x \div D) * (y \div D)
        s1 == t1 + (t0 \div D)
        sg == IF a = 0 \/ b = 0 THEN 0 ELSE IF (a < 0) = (b < 0) THEN 1 ELSE 0 - 1
    IN  <<sg, t2 + (s1 \div D), s1 % D, t0 % D>>

\* The three points of a triangle lie on one line: the determinant
\* (x2 - x1)(y3 - y1) - (y2 - y1)(x3 - x1) is zero.
Collinear(t) ==
    ExactProduct(t[2][1] - t[1][1], t[3][2] - t[1][2])
        = ExactProduct(t[2][2] - t[1][2], t[3][1] - t[1][1])

\* C2: when the destination triangle given to the renderer is collinear, the
\* renderer returns its input frame unchanged.
C2_DegenerateReturnsFrame ==
    (pc = "write" /\ render_tri # None /\ Collinear(render_tri))
        => final_frame = render_input

\* ------------------------------------------------------------------------
\* C3: when the remux fails or ffmpeg is absent, the run is not aborted: the
\* video-only file is kept and reported, and the run does not end in an
\* uncaught error.
C3_RemuxFailureNotFatal ==
    remux \in {"failed", "absent"} =>
        /\ temp_exists
        /\ reported = "temp"
        /\ pc # "crashed"

\* ------------------------------------------------------------------------
\* Coordinates of a triangle.
Coords == {<<i, j>> : i \in 1..3, j \in 1..2}

\* C4 as stated: the first update is the identity and sets the state; a later
\* update returns exactly alpha*new + (1-alpha)*previous (for alpha = 0.6:
\* 5*ret = 3*new + 2*previous), the returned triangle is the new state; for
\* alpha = 1 the input is returned; a constant input repeated is returned on
\* every call.
C4_ExactLaw ==
    /\ ema_calls = 1 => (ema_ret = ema_arg /\ last_landmarks = ema_arg)
    /\ ema_calls >= 1 => last_landmarks = ema_ret
    /\ ema_calls >= 2 =>
        \A c \in Coords :
            IF alpha = "0.6"
            THEN 5 * ema_ret[c[1]][c[2]]
                   = 3 * ema_arg[c[1]][c[2]] + 2 * ema_prev[c[1]][c[2]]
            ELSE ema_ret[c[1]][c[2]] = ema_arg[c[1]][c[2]]
    /\ (ema_calls >= 1 /\ ema_const) => ema_ret = ema_arg

\* Number of float32 steps (ulps of the result) the amended law allows
\* between the returned coordinate and the exact value.
UlpTolerance == 4

\* C4 amended: as C4, but a later update returns alpha*new +
\* (1-alpha)*previous as float32 arithmetic evaluates it, within UlpTolerance
\* ulps of the exact value, and not necessarily the exact value: a constant
\* input repeated is returned exactly by the first call only.
C4_RoundedLaw ==
    /\ ema_calls = 1 => (ema_ret = ema_arg /\ last_landmarks = ema_arg)
    /\ ema_calls >= 1 => last_landmarks = ema_ret
    /\ ema_calls >= 2 =>
        \A c \in Coords :
            IF alpha = "0.6"
            THEN Abs(5 * ema_ret[c[1]][c[2]]
                     - (3 * ema_arg[c[1]][c[2]] + 2 * ema_prev[c[1]][c[2]]))
                   <= 5 * UlpTolerance * Granule(ema_ret[c[1]][c[2]])
            ELSE ema_ret[c[1]][c[2]] = ema_arg[c[1]][c[2]]

\* A constant input was repeated with alpha = 0.6 and the value returned is
\* not the input.
C4_Witness ==
    /\ alpha = "0.6"
    /\ ema_calls >= 2
    /\ ema_const
    /\ ema_ret # ema_arg
    /\ last_landmarks = ema_ret

\* ------------------------------------------------------------------------
\* left-eye.x <= right-eye.x in a triangle <<eye_l, eye_r, nose>>, if any.
EyesOrdered(t) == t = None \/ t[1][1] <= t[2][1]

\* C5: every triangle passed to the smoother, the smoother state, the
\* triangle it returns and every triangle passed to the renderer have
\* left-eye.x <= right-eye.x.
C5_EyesOrdered ==
    /\ EyesOrdered(ema_arg)
    /\ EyesOrdered(last_landmarks)
    /\ EyesOrdered(ema_ret)
    /\ EyesOrdered(render_tri)

\* A mirrored detection (left eye right of the right eye) went through the
\* smoother, after an earlier update, and reached the renderer.
C5_Witness ==
    /\ pc = "write"
    /\ Len(pose_result) > 0
    /\ pose_result[1][2][1] > pose_result[1][3][1]
    /\ render_input # None
    /\ ema_arg = <<pose_result[1][3], pose_result[1][2], pose_result[1][1]>>
    /\ ema_calls >= 2

\* ------------------------------------------------------------------------
\* A pose result holds a first detection whose coordinates are all positive.
ValidPose(pr) == Len(pr) > 0 /\ ~HasNonPositive(pr[1])

\* The triangle <<eye_l, eye_r, nose>> of a detection <<nose, eye_l, eye_r>>,
\* the eyes ordered by x.
TriangleOf(d) ==
    IF d[2][1] > d[3][1] THEN <<d[3], d[2], d[1]>> ELSE <<d[2], d[3], d[1]>>

\* The moving average of the valid triangles among the first n pose results.
RECURSIVE ValidFold(_, _)
ValidFold(seq, n) ==
    IF n = 0 THEN None
    ELSE LET before == ValidFold(seq, n - 1)
         IN  IF ~ValidPose(seq[n]) THEN before
             ELSE IF before = None THEN TriangleOf(seq[n][1])
             ELSE EMASmooth("0.6", TriangleOf(seq[n][1]), before)

\* C6: the smoother state is unset until the first valid triangle and is
\* afterwards the moving-average fold of the valid triangles alone, in frame
\* order; a frame without a valid triangle is written as its working frame.
C6_StateIsFoldOfValid ==
    /\ last_landmarks = ValidFold(detections, Len(detections))
    /\ (pc \in {"write", "read"} /\ ~ValidPose(pose_result)) =>
          /\ final_frame = working
          /\ (write_input # None => write_input = working)

\* Three frames: no detection, a valid triangle T, an invalid detection; the
\* state is T and the third frame was written as its working frame.
C6_Witness ==
    /\ pc = "read"
    /\ Len(detections) = 3
    /\ detections[1] = <<>>
    /\ ValidPose(detections[2])
    /\ Len(detections[3]) > 0
    /\ ~ValidPose(detections[3])
    /\ last_landmarks = TriangleOf(detections[2][1])
    /\ write_input = working
    /\ write_input # None

\* ------------------------------------------------------------------------
\* C7: at every pixel and in every mode, a mask of one gives the frame and a
\* mask of zero gives the background layer the mode selects (the blurred
\* frame, the background image, or the frame in the fallback).
C7_MaskEdgeCases ==
    px_pc = "output" =>
        /\ px_mask = MaskDen => px_out = px_frame
        /\ px_mask = 0 =>
             px_out = IF px_mode = "blur" THEN px_blur
                      ELSE IF px_mode = "image" /\ px_bg # NoPixel THEN px_bg
                      ELSE px_frame

\* A zero mask in image mode gave the background image, which differs from
\* the frame.
C7_Witness ==
    /\ px_pc = "output"
    /\ px_mask = 0
    /\ px_mode = "image"
    /\ px_bg # NoPixel
    /\ px_out = px_bg
    /\ px_out # px_frame

\* ------------------------------------------------------------------------
\* Setup failed: the mask is missing, unreadable or without alpha channel,
\* the video did not open, or the background image of image mode is unreadable.
SetupFailed ==
    \/ mask_file \in {"rgb", "gray", "missing"}
    \/ cap_opened = "bad"
    \/ (args.bg_mode = "image" /\ bg_file = "unreadable")

\* C8: after a setup failure the run never enters the frame loop: no frame is
\* read, none is written, no output file is opened and no remux is attempted.
C8_SetupFailureBeforeLoop ==
    SetupFailed =>
        /\ pc \in {"load_bg", "open_video", "resize_bg", "returned", "crashed"}
        /\ frames_read = 0
        /\ written = <<>>
        /\ ~temp_exists
        /\ remux = "none"

\* The unreadable background image stopped the run at the resize.
C8_Witness ==
    /\ pc = "crashed"
    /\ bg_file = "unreadable"
    /\ cap_opened = "ok"
    /\ frames_read = 0

\* ------------------------------------------------------------------------
\* C9: the pose estimator gets the raw frame; the renderer runs after the
\* background step and gets the working frame it left; one frame is written
\* per frame read, in read order.
C9_FrameOrdering ==
    /\ pose_input # None => pose_input = frame
    /\ pc = "overlay" => working # None
    /\ render_input # None => (working # None /\ render_input = working)
    /\ written = [i \in 1..frame_count |-> i]
    /\ frame_count = IF pc \in {"segment", "pose", "landmarks", "overlay", "write"}
                     THEN frames_read - 1 ELSE frames_read

\* Two frames were written; in the second the background step changed the
\* frame, the pose estimator got the raw frame and the renderer the changed one.
C9_Witness ==
    /\ pc = "read"
    /\ written = <<1, 2>>
    /\ working # frame
    /\ pose_input = frame
    /\ render_input = working

\* ------------------------------------------------------------------------
RECURSIVE BitOrN(_, _, _)
BitOrN(a, b, n) ==
    IF n = 0 THEN 0
    ELSE (IF a % 2 = 1 \/ b % 2 = 1 THEN 1 ELSE 0)
           + 2 * BitOrN(a \div 2, b \div 2, n - 1)

\* The fallback of process_background: mode image without an image, or a
\* mode that is neither blur nor image.
Fallback ==
    \/ (px_mode = "image" /\ px_bg = NoPixel)
    \/ px_mode \notin {"blur", "image"}

\* C10: the person layer plus the background layer never exceeds 255, so the
\* saturating add is the plain sum and the bitwise OR of the two layers; in
\* the fallback the output is the frame for every mask value.
C10_AddNeverClips ==
    px_pc = "output" =>
        /\ px_person + px_background <= MaxPixel
        /\ px_out = px_person + px_background
        /\ px_out = BitOrN(px_person, px_background, 8)
        /\ Fallback => px_out = px_frame

\* In the fallback, a mask value strictly between zero and one split the
\* frame into two non-zero layers that add up to the frame.
C10_Witness ==
    /\ px_pc = "output"
    /\ Fallback
    /\ px_person > 0
    /\ px_background > 0
    /\ px_out = px_frame
    /\ px_person + px_background = px_frame

====
